---- MODULE Spec2Model ----
(***************************************************************************)
(* A model of the Coconuts contract (src/src/lib.rs): the account          *)
(* registry, the citizen store, the accrual functions and the transfer of  *)
(* young coconuts.  The host supplies the signer and the block index.      *)
(***************************************************************************)
EXTENDS Integers, FiniteSets, Sequences, TLC

\* ------------------------------------------------------------------ bounds
\* u64::max_value() for CitizenId, scaled down so that the id space can be
\* exhausted.
CitizenIdMax == 2
\* u128::max_value() for Balance and the adjustment counters, scaled down so
\* that the counters can overflow.  It stays at or above every block index,
\* as u128 stays above u64.
U128_MAX == 21
\* the block index the host moves to while transfers are explored: past the
\* maturation window, as in the test coconut_balance_after_maturation
MaxBlock == 11
\* the largest block index the host reaches while only accrual is explored
MaxAccrualBlock == 21
\* the number of transfers that return before exploration stops
MaxTransfers == 3

\* ------------------------------------------------------- program constants
INITIAL_COCONUTS == 0
COCONUTS_PER_BLOCK == 1
COCONUT_MATURATION_BLOCKS == 10

\* the accounts that sign calls (the names of the tests' VMContext)
AccountIds == {"bob_near", "alice_near", "carol_near"}
Traders == {"bob_near", "alice_near"}
\* the quantities callers ask to transfer: nothing, one, a whole maturation
\* window and more than any young balance
Quantities ==
    {0, 1, COCONUT_MATURATION_BLOCKS, COCONUT_MATURATION_BLOCKS + 1}

\* Option::None of the checked operations, and a panic inside a balance
None == -1

\* accounts, citizens, next_citizen_id: the fields of Coconuts
\* block_index: env::block_index()
\* overflow_checks: whether the build panics on an overflowing +=
\* last: the last call and how it ended
\* transfers: how many transfers have returned
VARIABLES accounts, citizens, next_citizen_id, block_index, overflow_checks,
          last, transfers

vars == <<accounts, citizens, next_citizen_id, block_index, overflow_checks,
          last, transfers>>

\* ------------------------------------------------------------ arithmetic
checked_add(a, b) == IF a + b > U128_MAX THEN None ELSE a + b
checked_sub(a, b) == IF a < b THEN None ELSE a - b
checked_mul(a, b) == IF a * b > U128_MAX THEN None ELSE a * b
\* a subtraction that wraps where saturating_sub stops at zero
wrapping_sub(a, b) == (a - b) % (U128_MAX + 1)
saturating_sub(a, b) == IF a < b THEN 0 ELSE a - b
\* u128 addition of a build without overflow checks
wrapping_add(a, b) == (a + b) % (U128_MAX + 1)

\* ---------------------------------------------------------------- panics
MsgAccountExists == "Account already exists"
MsgSignerNotCitizen == "Signer account is not a citizen"
MsgDestinationNotCitizen == "Destination account is not a citizen"
MsgQuantity == "Transfer quantity less than balance"
MsgOverflowsReceiver == "Transfer overflows receiver"
MsgExpectOverflow == "overflow"
MsgAddOverflow == "attempt to add with overflow"
MsgAssertFreshId == "assertion failed: !self.citizens.contains_key(&new_citizen_id)"
MsgAssertIdSpace == "assertion failed: self.next_citizen_id < u64::max_value()"
MsgAssertStored == "assertion failed: self.citizens.contains_key(&citizen_id)"
MsgBalancePanic == "panic in young_coconut_balance"
Ok == "ok"

\* ------------------------------------------------------------ the records
Adjustments_default == [sent |-> 0, received |-> 0]

\* Citizen::default stamped with the block after the current one
Citizen_default_next_block ==
    [init_block_index |-> block_index + 1,
     coconut_tree_count |-> 1,
     young_coconut_adjustments |-> Adjustments_default]
Citizen_default ==
    [init_block_index |-> block_index,
     coconut_tree_count |-> 1,
     young_coconut_adjustments |-> Adjustments_default]

\* LookupMap::insert
insert(map, key, value) ==
    [k \in DOMAIN map \cup {key} |-> IF k = key THEN value ELSE map[k]]

\* ------------------------------------------------------------ accrual
baseline_coconuts(self) ==
    IF ~(block_index >= self.init_block_index) THEN None
    ELSE LET diff_block_index == block_index - self.init_block_index
             by_tree == checked_mul(diff_block_index, self.coconut_tree_count)
             coconuts_since_init ==
                 IF by_tree = None THEN None
                 ELSE checked_mul(by_tree, COCONUTS_PER_BLOCK)
         IN  IF coconuts_since_init = None THEN None
             ELSE checked_add(INITIAL_COCONUTS, coconuts_since_init)

\* brown_coconut_balance maturing one block early
brown_coconut_balance_early(self) ==
    LET baseline == baseline_coconuts(self)
    IN  IF baseline = None THEN None
        ELSE checked_mul(
                 saturating_sub(baseline, COCONUT_MATURATION_BLOCKS - 1),
                 COCONUTS_PER_BLOCK)

\* brown_coconut_balance with the operands of saturating_sub exchanged
brown_coconut_balance_swapped(self) ==
    LET baseline == baseline_coconuts(self)
    IN  IF baseline = None THEN None
        ELSE checked_mul(saturating_sub(COCONUT_MATURATION_BLOCKS, baseline),
                         COCONUTS_PER_BLOCK)
brown_coconut_balance(self) ==
    LET baseline == baseline_coconuts(self)
    IN  IF baseline = None THEN None
        ELSE checked_mul(saturating_sub(baseline, COCONUT_MATURATION_BLOCKS),
                         COCONUTS_PER_BLOCK)

\* young_coconut_balance counting what the citizen received and sent
young_coconut_balance_adjusted(self) ==
    LET baseline == baseline_coconuts(self)
        brown == brown_coconut_balance(self)
        accrued == IF baseline = None \/ brown = None THEN None
                   ELSE checked_sub(baseline, brown)
        with_received ==
            IF accrued = None THEN None
            ELSE checked_add(accrued, self.young_coconut_adjustments.received)
    IN  IF with_received = None THEN None
        ELSE checked_sub(with_received, self.young_coconut_adjustments.sent)
young_coconut_balance(self) ==
    LET baseline == baseline_coconuts(self)
        brown == brown_coconut_balance(self)
    IN  IF baseline = None \/ brown = None THEN None
        ELSE IF ~(brown <= baseline) THEN None
        ELSE checked_sub(baseline, brown)

\* ------------------------------------------------------------ the registry
\* is_citizen: Some(citizen_id) in accounts
is_citizen(account_id) == account_id \in DOMAIN accounts

\* the assertion inside is_citizen fails
is_citizen_panics(account_id) ==
    /\ account_id \in DOMAIN accounts
    /\ accounts[account_id] \notin DOMAIN citizens

citizen(account_id) == citizens[accounts[account_id]]

\* set_citizen stamping the record it writes with the current block
set_citizen_restamped(store, account_id, record) ==
    insert(store, accounts[account_id],
           [record EXCEPT !.init_block_index = block_index])
set_citizen(store, account_id, record) ==
    insert(store, accounts[account_id], record)

\* ---------------------------------------------------------- registration
\* a call of signer_create_citizen that has written nothing
create_unchanged(panic) ==
    [panic |-> panic, accounts |-> accounts, citizens |-> citizens,
     next_citizen_id |-> next_citizen_id]

\* create_citizen with the counter left as it was
create_citizen_same_id(account_id) ==
    LET new_citizen_id == next_citizen_id
    IN  IF new_citizen_id \in DOMAIN citizens
        THEN create_unchanged(MsgAssertFreshId)
        ELSE [panic |-> IF ~(next_citizen_id < CitizenIdMax)
                        THEN MsgAssertIdSpace ELSE Ok,
              accounts |-> insert(accounts, account_id, new_citizen_id),
              citizens |-> insert(citizens, new_citizen_id, Citizen_default),
              next_citizen_id |-> next_citizen_id]

\* create_citizen asserting on the counter between its two inserts
create_citizen_assert_between(account_id) ==
    LET new_citizen_id == next_citizen_id
    IN  IF new_citizen_id \in DOMAIN citizens
        THEN create_unchanged(MsgAssertFreshId)
        ELSE LET stored == insert(citizens, new_citizen_id, Citizen_default)
                 mapped == insert(accounts, account_id, new_citizen_id)
             IN  IF ~(next_citizen_id < CitizenIdMax)
                 THEN [panic |-> MsgAssertIdSpace,
                       accounts |-> accounts, citizens |-> stored,
                       next_citizen_id |-> next_citizen_id]
                 ELSE [panic |-> Ok,
                       accounts |-> mapped, citizens |-> stored,
                       next_citizen_id |-> next_citizen_id + 1]
\* lines 41-47: the new id, the two inserts, then the assertion on the
\* counter and its increment.  The panic (Ok when the call returns) and the
\* maps and the counter as they are then.
create_citizen(account_id) ==
    LET new_citizen_id == next_citizen_id
    IN  IF new_citizen_id \in DOMAIN citizens
        THEN create_unchanged(MsgAssertFreshId)
        ELSE LET new_citizen == Citizen_default
                 stored == insert(citizens, new_citizen_id, new_citizen)
                 mapped == insert(accounts, account_id, new_citizen_id)
             IN  IF ~(next_citizen_id < CitizenIdMax)
                 THEN [panic |-> MsgAssertIdSpace,
                       accounts |-> mapped, citizens |-> stored,
                       next_citizen_id |-> next_citizen_id]
                 ELSE [panic |-> Ok,
                       accounts |-> mapped, citizens |-> stored,
                       next_citizen_id |-> next_citizen_id + 1]

\* signer_create_citizen without its is_citizen check
signer_create_citizen_unguarded(account_id) == create_citizen(account_id)

\* signer_create_citizen: lines 37-40, then the creation
signer_create_citizen(account_id) ==
    IF is_citizen_panics(account_id) THEN create_unchanged(MsgAssertStored)
    ELSE IF is_citizen(account_id) THEN create_unchanged(MsgAccountExists)
    ELSE create_citizen(account_id)

\* ---------------------------------------------------------------- transfer
\* the two registration checks with the destination checked first
not_citizen_panic_destination_first(account_id_from, account_id_to) ==
    IF is_citizen_panics(account_id_to) THEN MsgAssertStored
    ELSE IF ~is_citizen(account_id_to) THEN MsgDestinationNotCitizen
    ELSE IF is_citizen_panics(account_id_from) THEN MsgAssertStored
    ELSE IF ~is_citizen(account_id_from) THEN MsgSignerNotCitizen
    ELSE Ok

\* lines 142-147: the two registration checks, the signer first
not_citizen_panic(account_id_from, account_id_to) ==
    IF is_citizen_panics(account_id_from) THEN MsgAssertStored
    ELSE IF ~is_citizen(account_id_from) THEN MsgSignerNotCitizen
    ELSE IF is_citizen_panics(account_id_to) THEN MsgAssertStored
    ELSE IF ~is_citizen(account_id_to) THEN MsgDestinationNotCitizen
    ELSE Ok

\* the balance check refusing the whole balance too
quantity_exceeds_or_equals(balance_from, qty) == qty >= balance_from

\* balance_from.checked_sub(qty).is_none()
quantity_exceeds(balance_from, qty) == checked_sub(balance_from, qty) = None

\* balance_to.checked_add(qty).is_none()
overflows_receiver(balance_to, qty) == checked_add(balance_to, qty) = None

\* counter += counter.wrapping_add(qty), in a build without overflow checks
adjusted_unchecked(counter, qty) ==
    [panic |-> Ok,
     value |-> wrapping_add(counter, wrapping_add(counter, qty))]

\* counter += counter.checked_add(qty).expect("overflow")
adjusted(counter, qty) ==
    LET sum == checked_add(counter, qty)
    IN  IF sum = None THEN [panic |-> MsgExpectOverflow, value |-> counter]
        ELSE IF overflow_checks /\ counter + sum > U128_MAX
        THEN [panic |-> MsgAddOverflow, value |-> counter]
        ELSE [panic |-> Ok, value |-> wrapping_add(counter, sum)]

\* the sender's record written before the recipient's counter is computed
adjust_and_set_early_write(account_id_from, account_id_to, citizen_from, citizen_to, qty) ==
    LET sent == adjusted(citizen_from.young_coconut_adjustments.sent, qty)
        received == adjusted(citizen_to.young_coconut_adjustments.received, qty)
        new_from == [citizen_from EXCEPT
                        !.young_coconut_adjustments.sent = sent.value]
        new_to == [citizen_to EXCEPT
                        !.young_coconut_adjustments.received = received.value]
        written == set_citizen(citizens, account_id_from, new_from)
    IN  IF sent.panic # Ok THEN [panic |-> sent.panic, citizens |-> citizens]
        ELSE IF received.panic # Ok
        THEN [panic |-> received.panic, citizens |-> written]
        ELSE [panic |-> Ok,
              citizens |-> set_citizen(written, account_id_to, new_to)]

\* lines 163-169: the two adjustments, then the two writes
adjust_and_set(account_id_from, account_id_to, citizen_from, citizen_to, qty) ==
    LET sent == adjusted(citizen_from.young_coconut_adjustments.sent, qty)
        received == adjusted(citizen_to.young_coconut_adjustments.received, qty)
        new_from == [citizen_from EXCEPT
                        !.young_coconut_adjustments.sent = sent.value]
        new_to == [citizen_to EXCEPT
                        !.young_coconut_adjustments.received = received.value]
    IN  IF sent.panic # Ok THEN [panic |-> sent.panic, citizens |-> citizens]
        ELSE IF received.panic # Ok
        THEN [panic |-> received.panic, citizens |-> citizens]
        ELSE [panic |-> Ok,
              citizens |-> set_citizen(
                               set_citizen(citizens, account_id_from, new_from),
                               account_id_to, new_to)]

\* transfer_young_coconuts: the panic (Ok when it returns) and the store
transfer_young_coconuts(account_id_from, account_id_to, qty) ==
    LET unchanged(panic) == [panic |-> panic, citizens |-> citizens]
        unregistered == not_citizen_panic(account_id_from, account_id_to)
    IN  IF unregistered # Ok THEN unchanged(unregistered)
        ELSE LET citizen_from == citizen(account_id_from)
                 citizen_to == citizen(account_id_to)
                 balance_from == young_coconut_balance(citizen_from)
                 balance_to == young_coconut_balance(citizen_to)
             IN  IF balance_from = None \/ balance_to = None
                 THEN unchanged(MsgBalancePanic)
                 ELSE IF quantity_exceeds(balance_from, qty)
                 THEN unchanged(MsgQuantity)
                 ELSE IF overflows_receiver(balance_to, qty)
                 THEN unchanged(MsgOverflowsReceiver)
                 ELSE adjust_and_set(account_id_from, account_id_to,
                                     citizen_from, citizen_to, qty)

\* ------------------------------------------------------------ the machine
Call(op, panic) == [op |-> op, panic |-> panic]

\* what the host may keep of a call: what it wrote when it returns; when it
\* panics, nothing if the host reverts the call and what was written so far
\* if it does not (the mocked blockchain of the tests)
kept(panic, written, before) ==
    {IF panic = Ok \/ ~host_reverts THEN written ELSE before :
         host_reverts \in BOOLEAN}

Init ==
    /\ accounts = [a \in {} |-> 0]
    /\ citizens = [c \in {} |-> 0]
    /\ next_citizen_id = 0
    /\ block_index = 0
    /\ overflow_checks \in BOOLEAN
    /\ last = Call("deploy", Ok)
    /\ transfers = 0

SignerCreateCitizen(account_id) ==
    LET r == signer_create_citizen(account_id)
    IN  /\ \E state \in kept(r.panic,
                               <<r.accounts, r.citizens, r.next_citizen_id>>,
                               <<accounts, citizens, next_citizen_id>>) :
               /\ accounts' = state[1]
               /\ citizens' = state[2]
               /\ next_citizen_id' = state[3]
        /\ last' = Call("signer_create_citizen", r.panic)
        /\ UNCHANGED <<block_index, overflow_checks, transfers>>

SignerTransferYoungCoconuts(account_id_from, account_id_to, qty) ==
    LET r == transfer_young_coconuts(account_id_from, account_id_to, qty)
    IN  /\ r.panic = Ok => transfers < MaxTransfers
        /\ citizens' \in kept(r.panic, r.citizens, citizens)
        /\ transfers' = IF r.panic = Ok THEN transfers + 1 ELSE transfers
        /\ last' = Call("signer_transfer_young_coconuts", r.panic)
        /\ UNCHANGED <<accounts, next_citizen_id, block_index, overflow_checks>>

\* the host moves to a later block, one of `blocks`
AdvanceBlock(blocks) ==
    /\ \E later \in blocks : later > block_index /\ block_index' = later
    /\ last' = Call("block", Ok)
    /\ UNCHANGED <<accounts, citizens, next_citizen_id, overflow_checks,
                   transfers>>

\* the registry called by `signers`, the host moving through `blocks`
Registry(signers, blocks) ==
    \/ \E account_id \in signers : SignerCreateCitizen(account_id)
    \/ AdvanceBlock(blocks)

\* the whole contract called by `signers`, transferring `quantities`
Machine(signers, quantities, blocks) ==
    \/ Registry(signers, blocks)
    \/ \E account_id_from \in signers, account_id_to \in signers,
          qty \in quantities :
          SignerTransferYoungCoconuts(account_id_from, account_id_to, qty)

\* the contract, two signers
Next == Machine(Traders, Quantities, {MaxBlock})
Spec == Init /\ [][Next]_vars

\* registration alone: enough signers to exhaust the ids
NextRegistry == Registry(AccountIds, {1, MaxBlock})
SpecRegistry == Init /\ [][NextRegistry]_vars

\* accrual alone: one signer, many blocks
NextAccrual == Registry({"bob_near"}, 0..MaxAccrualBlock)
SpecAccrual == Init /\ [][NextAccrual]_vars

\* ------------------------------------------------- the errors of the spec
AlreadyRegistered == MsgAccountExists
IdSpaceExhausted == MsgAssertIdSpace
SenderNotRegistered == MsgSignerNotCitizen
RecipientNotRegistered == MsgDestinationNotCitizen
InsufficientBalance == MsgQuantity
ArithmeticOverflow == {MsgOverflowsReceiver, MsgExpectOverflow, MsgAddOverflow}

\* ------------------------------------------------- what the claims read
registered(account_id) == account_id \in DOMAIN accounts
sent(account_id) ==
    citizens[accounts[account_id]].young_coconut_adjustments.sent
received(account_id) ==
    citizens[accounts[account_id]].young_coconut_adjustments.received
sent_after(account_id) ==
    citizens'[accounts'[account_id]].young_coconut_adjustments.sent
received_after(account_id) ==
    citizens'[accounts'[account_id]].young_coconut_adjustments.received
young(account_id) == young_coconut_balance(citizen(account_id))
transferred == last.op = "signer_transfer_young_coconuts"
created == last.op = "signer_create_citizen"
ledger == <<accounts, citizens, next_citizen_id>>
sent_in(store, account_id) ==
    store[accounts[account_id]].young_coconut_adjustments.sent
received_in(store, account_id) ==
    store[accounts[account_id]].young_coconut_adjustments.received

\* C1: every transfer between two different accounts that returns adds
\* exactly qty to the sender's sent and exactly qty to the recipient's
\* received, whatever the counters were before.
C1_TransferAddsQty ==
    [][\A from \in Traders, to \in Traders, qty \in Quantities :
         (/\ from # to
          /\ SignerTransferYoungCoconuts(from, to, qty)
          /\ last'.panic = Ok)
         => /\ sent_after(from) = sent(from) + qty
            /\ received_after(to) = received(to) + qty]_vars

\* C2: in every reachable state, a transfer that panics, for whatever
\* reason, has written nothing by then, so the store is as it was; a
\* transfer of a positive quantity between two different accounts that
\* returns has changed both records.
C2_TransferAtomic ==
    \A from \in Traders, to \in Traders, qty \in Quantities :
        LET r == transfer_young_coconuts(from, to, qty)
        IN  /\ r.panic # Ok => r.citizens = citizens
            /\ (r.panic = Ok /\ from # to /\ qty > 0)
               => /\ sent_in(r.citizens, from) # sent(from)
                  /\ received_in(r.citizens, to) # received(to)

\* C2's case: a transfer has panicked on the recipient's counter although
\* the sender's balance covered the quantity and the sender's new counter
\* had been computed.
C2_Witness ==
    /\ transferred
    /\ last.panic \in {MsgExpectOverflow, MsgAddOverflow}
    /\ \E from \in DOMAIN accounts, to \in DOMAIN accounts, qty \in Quantities :
           /\ qty <= young(from)
           /\ adjusted(sent(from), qty).panic = Ok
           /\ adjusted(received(to), qty).panic = last.panic

\* C3: in every reachable state, a transfer between two registered
\* accounts panics with InsufficientBalance exactly when qty exceeds the
\* sender's young balance.
C3_InsufficientIffExceeds ==
    \A from \in Traders, to \in Traders, qty \in Quantities :
        (registered(from) /\ registered(to))
        => (transfer_young_coconuts(from, to, qty).panic = InsufficientBalance
            <=> qty > young(from))

\* C3's case: a sender with a positive young balance was refused.
C3_Witness ==
    /\ transferred
    /\ last.panic = InsufficientBalance
    /\ \A a \in Traders : registered(a) /\ young(a) > 0

\* C4: a transfer from an account to itself that returns adds qty to both
\* counters of the one record.
C4_SelfTransferBothCounters ==
    [][\A self \in Traders, qty \in Quantities :
         (SignerTransferYoungCoconuts(self, self, qty) /\ last'.panic = Ok)
         => /\ sent_after(self) = sent(self) + qty
            /\ received_after(self) = received(self) + qty]_vars

\* C5: in every reachable state and for every quantity, a transfer signed
\* by an unregistered account panics with SenderNotRegistered, also when the
\* destination is unregistered too; one to an unregistered destination
\* panics with RecipientNotRegistered; in both cases nothing is written.
C5_UnregisteredRefused ==
    \A from \in Traders, to \in Traders, qty \in Quantities :
        LET r == transfer_young_coconuts(from, to, qty)
        IN  /\ ~registered(from)
               => r.panic = SenderNotRegistered /\ r.citizens = citizens
            /\ (registered(from) /\ ~registered(to))
               => r.panic = RecipientNotRegistered /\ r.citizens = citizens

\* C5's case: the signer was refused while another account was registered.
C5_Witness ==
    /\ transferred
    /\ last.panic = SenderNotRegistered
    /\ Cardinality(DOMAIN accounts) = 1

\* C6: in every reachable state, signer_create_citizen of a mapped account
\* panics with AlreadyRegistered having written nothing: the maps, the
\* records in them and the counter are as they were.
C6_ReRegisterRefused ==
    \A account_id \in Traders :
        registered(account_id)
        => LET r == signer_create_citizen(account_id)
           IN  /\ r.panic = AlreadyRegistered
               /\ r.accounts = accounts
               /\ r.citizens = citizens
               /\ r.next_citizen_id = next_citizen_id

\* C6's case: the refused account has a record that transfers have changed.
C6_Witness ==
    /\ created
    /\ last.panic = AlreadyRegistered
    /\ \A a \in Traders : registered(a) /\ sent(a) + received(a) > 0

\* C7: signer_create_citizen of an unmapped account that returns gives it
\* the counter's value as id, an id no account has and equal to the number
\* of accounts created before, stores the record of a citizen created now,
\* and adds one to the counter.
C7_RegisterAssignsNextId ==
    [][\A account_id \in AccountIds :
         (/\ ~registered(account_id)
          /\ SignerCreateCitizen(account_id)
          /\ last'.panic = Ok)
         => /\ accounts' = insert(accounts, account_id, next_citizen_id)
            /\ citizens' = insert(citizens, next_citizen_id,
                   [init_block_index |-> block_index,
                    coconut_tree_count |-> 1,
                    young_coconut_adjustments |-> [sent |-> 0, received |-> 0]])
            /\ next_citizen_id' = next_citizen_id + 1
            /\ next_citizen_id = Cardinality(DOMAIN accounts)
            /\ \A other \in DOMAIN accounts :
                   accounts[other] # next_citizen_id]_vars

\* C7's case: the second account was created, in a later block than the
\* first.
C7_Witness ==
    /\ created
    /\ last.panic = Ok
    /\ next_citizen_id = 2
    /\ \E a \in DOMAIN accounts :
           accounts[a] = 1 /\ citizen(a).init_block_index > 0

\* C8: signer_create_citizen of an unmapped account while the counter is at
\* its maximum panics with IdSpaceExhausted and adds neither a record nor a
\* mapping.
C8_IdSpaceExhausted ==
    [][\A account_id \in AccountIds :
         (/\ ~registered(account_id)
          /\ next_citizen_id = CitizenIdMax
          /\ SignerCreateCitizen(account_id))
         => /\ last'.panic = IdSpaceExhausted
            /\ UNCHANGED ledger]_vars

\* C9: in every reachable state, a transfer between registered accounts
\* whose quantity the sender's young balance covers and whose quantity added
\* to the recipient's received exceeds the maximum panics with
\* ArithmeticOverflow having written nothing.
C9_ReceivedOverflowRefused ==
    \A from \in Traders, to \in Traders, qty \in Quantities :
        (/\ registered(from) /\ registered(to)
         /\ qty <= young(from)
         /\ received(to) + qty > U128_MAX)
        => LET r == transfer_young_coconuts(from, to, qty)
           IN  r.panic \in ArithmeticOverflow /\ r.citizens = citizens

\* C9's case: a transfer panicked on a counter, and one quantity more
\* does not fit some account's received.
C9_Witness ==
    /\ transferred
    /\ last.panic = MsgExpectOverflow
    /\ \E a \in DOMAIN accounts : received(a) + 1 > U128_MAX
    /\ \A a \in DOMAIN accounts : sent(a) + 1 <= U128_MAX

\* C10: a citizen with one tree created at t0 has, at block t >= t0, the
\* young balance min(t - t0, 10) and the brown balance max(0, t - t0 - 10).
C10_BalancesByAge ==
    \A a \in DOMAIN accounts :
        LET self == citizen(a)
            age == block_index - self.init_block_index
        IN  (self.coconut_tree_count = 1 /\ age >= 0)
            => /\ young_coconut_balance(self) = IF age < 10 THEN age ELSE 10
               /\ brown_coconut_balance(self) = IF age > 10 THEN age - 10 ELSE 0

\* C10's case: twenty blocks after creation, ten young and ten brown.
C10_Witness ==
    \E a \in DOMAIN accounts :
        /\ block_index - citizen(a).init_block_index = 20
        /\ citizen(a).init_block_index > 0
        /\ young_coconut_balance(citizen(a)) = 10
        /\ brown_coconut_balance(citizen(a)) = 10

\* C11: for every citizen at every block t >= t0, young(t) + brown(t) =
\* baseline(t) and brown(t) <= baseline(t): the subtraction in the young
\* balance never underflows and its assertion never fails.
C11_YoungPlusBrownIsBaseline ==
    \A a \in DOMAIN accounts :
        LET self == citizen(a)
            baseline == baseline_coconuts(self)
            brown == brown_coconut_balance(self)
            young_now == young_coconut_balance(self)
        IN  block_index >= self.init_block_index
            => /\ baseline # None /\ brown # None /\ young_now # None
               /\ brown <= baseline
               /\ young_now + brown = baseline

\* C11's case: a citizen inside the maturation window, where brown is zero
\* because the subtraction saturates, and one past it with both kinds.
C11_Witness ==
    \E a \in DOMAIN accounts :
        /\ last.op = "block"
        /\ baseline_coconuts(citizen(a)) \in 1..(COCONUT_MATURATION_BLOCKS - 1)
        /\ brown_coconut_balance(citizen(a)) = 0
        /\ young_coconut_balance(citizen(a)) = baseline_coconuts(citizen(a))

\* C12: the brown balance of a citizen never decreases from one state to the
\* next, and after every step it is positive exactly when the baseline
\* exceeds 10.
C12_BrownNeverDecreases ==
    [][/\ \A a \in DOMAIN accounts :
              /\ a \in DOMAIN accounts'
              /\ brown_coconut_balance(citizen(a))'
                     >= brown_coconut_balance(citizen(a))
       /\ \A a \in DOMAIN accounts' :
              (brown_coconut_balance(citizen(a)) > 0
                   <=> baseline_coconuts(citizen(a)) > 10)']_vars

\* C12's case: the clock has just carried a citizen from a baseline of
\* exactly 10, where nothing is brown, to a larger one.
C12_Witness ==
    \E a \in DOMAIN accounts :
        /\ last.op = "block"
        /\ baseline_coconuts(citizen(a)) = 12
        /\ brown_coconut_balance(citizen(a)) = 2
        /\ citizen(a).init_block_index = 3
\* C13: once an account key resolves to a citizen id, every later resolution
\* of that key returns the same id, whatever operation came between.
C13_AccountKeepsItsId ==
    [][\A a \in DOMAIN accounts :
           /\ a \in DOMAIN accounts'
           /\ accounts'[a] = accounts[a]]_vars

\* C13's case: both accounts resolve, to different ids, after transfers, a
\* clock advance and a refused re-registration.
C13_Witness ==
    /\ created
    /\ last.panic = AlreadyRegistered
    /\ transfers > 0
    /\ block_index > 0
    /\ \A a \in Traders : registered(a) /\ accounts[a] \in DOMAIN citizens
    /\ accounts["bob_near"] # accounts["alice_near"]

\* C14: a transfer that returns leaves the young and the brown balance of
\* its sender and of its recipient, read at the same block, as they were.
C14_TransferLeavesBalances ==
    \A from \in Traders, to \in Traders, qty \in Quantities :
        LET r == transfer_young_coconuts(from, to, qty)
        IN  r.panic = Ok
            => \A a \in {from, to} :
                   LET before == citizens[accounts[a]]
                       after == r.citizens[accounts[a]]
                   IN  /\ young_coconut_balance(after)
                           = young_coconut_balance(before)
                       /\ brown_coconut_balance(after)
                           = brown_coconut_balance(before)

\* C14's case: a transfer of a whole young balance has returned and its
\* sender still has that young balance.
C14_Witness ==
    /\ transferred
    /\ last.panic = Ok
    /\ \E a \in DOMAIN accounts :
           /\ sent(a) >= COCONUT_MATURATION_BLOCKS
           /\ young(a) = COCONUT_MATURATION_BLOCKS
           /\ brown_coconut_balance(citizen(a)) > 0
\* C15: no transfer stores a counter reduced modulo 2^w: a transfer whose new
\* sent or received would exceed the largest value fails instead, so that
\* neither counter of any citizen ever decreases.
C15_CountersNeverDecrease ==
    [][\A a \in DOMAIN accounts :
           /\ sent_after(a) >= sent(a)
           /\ received_after(a) >= received(a)]_vars

\* C16: in every reachable state every stored citizen id is the value of
\* exactly one account key and every mapped id is stored, so neither the
\* assertion of is_citizen nor the missing-state branch of citizen triggers.
C16_AccountsMatchCitizens ==
    /\ \A id \in DOMAIN citizens :
           Cardinality({a \in DOMAIN accounts : accounts[a] = id}) = 1
    /\ \A a \in DOMAIN accounts : accounts[a] \in DOMAIN citizens
    /\ \A a \in AccountIds : ~is_citizen_panics(a)

\* C16's case: a registration panicked on the exhausted counter after both
\* its inserts and the host kept what it had written.
C16_Witness ==
    /\ created
    /\ last.panic = IdSpaceExhausted
    /\ next_citizen_id = CitizenIdMax
    /\ Cardinality(DOMAIN accounts) = CitizenIdMax + 1
    /\ Cardinality(DOMAIN citizens) = CitizenIdMax + 1
\* C17: a transfer changes nothing except the adjustments of its sender's
\* and its recipient's records: the block and the trees of every citizen,
\* the records of every other citizen, the account map and the counter are
\* as before, and a citizen's init_block_index stays the block of its
\* registration for as long as it is stored.
C17_TransferOnlyAdjusts ==
    /\ [](\A from \in Traders, to \in Traders, qty \in Quantities :
              LET r == transfer_young_coconuts(from, to, qty)
              IN  /\ DOMAIN r.citizens = DOMAIN citizens
                  /\ \A a \in DOMAIN accounts \ {from, to} :
                         r.citizens[accounts[a]] = citizens[accounts[a]]
                  /\ \A id \in DOMAIN citizens :
                         /\ r.citizens[id].init_block_index
                                = citizens[id].init_block_index
                         /\ r.citizens[id].coconut_tree_count
                                = citizens[id].coconut_tree_count)
    /\ [][/\ \A id \in DOMAIN citizens :
                 /\ id \in DOMAIN citizens'
                 /\ citizens'[id].init_block_index
                        = citizens[id].init_block_index
                 /\ citizens'[id].coconut_tree_count
                        = citizens[id].coconut_tree_count
          /\ \A id \in DOMAIN citizens' \ DOMAIN citizens :
                 citizens'[id].init_block_index = block_index
          /\ transferred'
             => /\ accounts' = accounts
                /\ next_citizen_id' = next_citizen_id
                /\ DOMAIN citizens' = DOMAIN citizens]_vars

\* C17's case: a transfer from an account to itself has returned while a
\* second citizen, with adjustments of its own, was stored, at a block later
\* than the registrations.
C17_Witness ==
    /\ transferred
    /\ last.panic = Ok
    /\ block_index > 0
    /\ \A a \in Traders : registered(a) /\ citizen(a).init_block_index = 0
    /\ sent("bob_near") > 0
    /\ sent("alice_near") = 0
    /\ received("alice_near") > received("bob_near")
    /\ received("bob_near") > 0
\* C18: with a clock that never goes back, in every reachable state the
\* block index is at least the init_block_index of every stored citizen, so
\* the assertions of baseline_coconuts and citizen_state on it never fail.
C18_ClockNotBeforeInit ==
    \A id \in DOMAIN citizens :
        /\ block_index >= citizens[id].init_block_index
        /\ baseline_coconuts(citizens[id]) # None

\* C18's case: a citizen registered at a later block than the deployment, in
\* the block of its registration, where the two indices are equal.
C18_Witness ==
    \E a \in DOMAIN accounts :
        /\ created
        /\ last.panic = Ok
        /\ citizen(a).init_block_index > 0
        /\ block_index = citizen(a).init_block_index
\* C19: in every reachable state the sum of sent over all citizens equals
\* the sum of received over all citizens.
C19_SentEqualsReceived ==
    LET RECURSIVE total(_, _)
        total(ids, counter) ==
            IF ids = {} THEN 0
            ELSE LET id == CHOOSE i \in ids : TRUE
                 IN  citizens[id].young_coconut_adjustments[counter]
                         + total(ids \ {id}, counter)
    IN  total(DOMAIN citizens, "sent") = total(DOMAIN citizens, "received")

\* C20: in every reachable state no citizen has sent more than its baseline
\* at the current block plus what it received, so that repeating a transfer
\* in one block cannot send the same young coconuts twice.
C20_NoOverspending ==
    \A a \in DOMAIN accounts :
        sent(a) <= baseline_coconuts(citizen(a)) + received(a)
====
